---- MODULE Spec2Model ----
(***************************************************************************)
(* The agent memory store of signetai: the relational memory table with    *)
(* its full-text mirror, the auxiliary vector store, ingestion (explicit   *)
(* and auto saves), maintenance (reindex, prune), the context loaders and  *)
(* hybrid retrieval (memory.py, hybrid_search.py, vector_store.py).        *)
(*                                                                         *)
(* Representation.                                                         *)
(*  - Text is a sequence of elements: a space, a bullet or a whole word;   *)
(*    the nine-character literal "critical:" is the single element CRIT.  *)
(*  - importance, alpha and min_score are held in hundredths (0.8 is 80).  *)
(*  - Time is counted in units of 1/UnitsPerDay day.                       *)
(*  - The decay factor 0.95^n is held in millionths, the effective score   *)
(*    in units of 10^-8 (importance in hundredths times decay).            *)
(*  - Search scores are exact fractions: a numerator with the denominator  *)
(*    of the call kept beside the result list.                             *)
(***************************************************************************)
EXTENDS Integers, Sequences, FiniteSets, TLC

(***************************************************************************)
(* Bounds of the model.                                                    *)
(***************************************************************************)
MaxMem == 1          \* memory rows ever inserted
MaxAccess == 1       \* cap on access_count
MaxNowDays == 61     \* the clock stops after this many days
MaxBatch == 1        \* candidates the extractor returns in one auto save
MaxRaw == 2          \* raw (un-normalized) search scores are 1..MaxRaw
MaxIds == 2          \* ids in the score maps given to hybrid search alone
MaxAgeDays == 46     \* ages given to the scorer alone
UnitsPerDay == 2     \* clock resolution
MaxTagLen == 3       \* characters of a tags string given to the normalizer alone
MaxPruneRows == 2    \* rows of the tables given to prune alone
MaxStmts == 2        \* chunks of a migration file
MaxDupRows == 1      \* rows of the tables given to the duplicate test alone
MaxBudgetRows == 3   \* rows given to the budget accumulator alone
MaxBudget == 8       \* character budgets given to the budget accumulator alone
MaxMdDelta == 3      \* MEMORY.md texts are within this many characters of the budget
MaxMdPad == 2        \* white space before and after the text of MEMORY.md
MaxLoadRows == 2     \* rows of the tables given to the two loaders alone
LoadAgeDays == 10    \* age of the older rows of these tables

(***************************************************************************)
(* Program constants.                                                      *)
(***************************************************************************)
MEMORY_MD_BUDGET == 10000
DB_MEMORIES_BUDGET == 2000
PROMPT_BUDGET == 500
SESSION_LIMIT == 30
PROMPT_LIMIT == 15
PRUNE_DAYS == 60
DEFAULT_ALPHA == 70
DEFAULT_MIN_SCORE == 30
DEFAULT_TOP_K == 20
DEFAULT_LIMIT == 20
DIMENSIONS == 768

NULL == "NULL"
\* NULL in a numeric column, and a numeric key a JSON object lacks
NONE == 0 - 1
CRIT == "critical:"

Min(a, b) == IF a <= b THEN a ELSE b
Max(a, b) == IF a >= b THEN a ELSE b

(***************************************************************************)
(* Text.  The elements of a text are " ", "-", CRIT and the words "alpha", *)
(* "bravo" (five letters) and "it" (two letters); "Alpha" is "alpha" with  *)
(* a capital letter.                                                       *)
(***************************************************************************)
IsSpace(c) == c = " "

\* characters of an element
TokenLen(c) ==
    CASE c = CRIT -> 9
      [] c \in {"alpha", "bravo", "Alpha"} -> 5
      [] c = "it" -> 2
      [] OTHER -> 1

\* letters of the word in an element (0: it holds no word)
WordLen(c) ==
    CASE c = CRIT -> 8
      [] c \in {"alpha", "bravo", "Alpha"} -> 5
      [] c = "it" -> 2
      [] OTHER -> 0

\* str.lower()
LowerText(s) == [k \in DOMAIN s |-> IF s[k] = "Alpha" THEN "alpha" ELSE s[k]]

\* str.strip()
RECURSIVE LStrip(_)
LStrip(s) == IF s # <<>> /\ IsSpace(Head(s)) THEN LStrip(Tail(s)) ELSE s

RECURSIVE RStrip(_)
RStrip(s) ==
    IF s # <<>> /\ IsSpace(s[Len(s)]) THEN RStrip(SubSeq(s, 1, Len(s) - 1)) ELSE s

Strip(s) == RStrip(LStrip(s))

\* len(str)
RECURSIVE StrLen(_)
StrLen(s) == IF s = <<>> THEN 0 ELSE TokenLen(Head(s)) + StrLen(Tail(s))

\* re.findall(r'\b\w{n,}\b', s): the words of at least n letters, in order
WordsAtLeast(s, n) ==
    LET Long(c) == WordLen(c) >= n IN SelectSeq(s, Long)

\* the word tokens of a text (what the full-text index holds for it)
Words(s) == {s[i] : i \in {j \in 1..Len(s) : WordLen(s[j]) > 0}}

\* occurrences of word w in s
TermFreq(s, w) == Cardinality({i \in 1..Len(s) : s[i] = w})

\* str.split(): the elements between white space
Split(s) == LET Solid(c) == ~IsSpace(c) IN SelectSeq(s, Solid)

Range(s) == {s[i] : i \in 1..Len(s)}

\* a in b, for two texts
Contains(b, a) ==
    \E i \in 0..(Len(b) - Len(a)) : SubSeq(b, i + 1, i + Len(a)) = a

\* str.startswith("critical:")
StartsWithCritical(s) == s # <<>> /\ Head(s) = CRIT

(***************************************************************************)
(* Scorer (effective_score_sql).                                           *)
(***************************************************************************)
\* CAST(x AS INTEGER) of the quotient t / UnitsPerDay: truncation toward zero
CastDays(t) == IF t >= 0 THEN t \div UnitsPerDay ELSE 0 - ((0 - t) \div UnitsPerDay)

AgeDays(nowT, createdT) == CastDays(nowT - createdT)

\* POWER(0.95, n) in millionths, n >= 0
RECURSIVE Pow95(_)
Pow95(n) == IF n <= 0 THEN 1000000 ELSE (Pow95(n - 1) * 95) \div 100

\* MAX(0.1, POWER(0.95, age)) in millionths
Decay(age) == Max(100000, Pow95(age))

\* the CASE expression without MAX(0.1, ...)
EffectiveScoreNoFloor(importance, pinned, age) ==
    IF pinned = 1 THEN 100000000 ELSE importance * Pow95(age)

\* the CASE expression, in units of 10^-8
EffectiveScore(importance, pinned, age) ==
    IF pinned = 1 THEN 100000000 ELSE importance * Decay(age)

(***************************************************************************)
(* Hybrid search (hybrid_search.py).  A score map is a function from ids   *)
(* to raw scores; higher is better.                                        *)
(***************************************************************************)
MaxOf(raw) == CHOOSE m \in {raw[i] : i \in DOMAIN raw} : \A i \in DOMAIN raw : raw[i] <= m
MinOf(raw) == CHOOSE m \in {raw[i] : i \in DOMAIN raw} : \A i \in DOMAIN raw : raw[i] >= m

\* normalize_scores: the score of id is NormNum / NormDen, in [0, 1]
NormDen(raw) ==
    IF DOMAIN raw = {} \/ MaxOf(raw) = MinOf(raw) THEN 1 ELSE MaxOf(raw) - MinOf(raw)

NormNum(raw, id) ==
    IF id \notin DOMAIN raw THEN 0
    ELSE IF MaxOf(raw) = MinOf(raw) THEN 1 ELSE raw[id] - MinOf(raw)

Restrict(f, S) == [i \in S |-> f[i]]

\* ORDER BY rank LIMIT k: the k best rows; which of several equal rows is cut is open
TopKSets(raw, k) ==
    {S \in SUBSET DOMAIN raw :
        /\ Cardinality(S) = Min(k, Cardinality(DOMAIN raw))
        /\ \A i \in S : \A j \in (DOMAIN raw) \ S : raw[i] >= raw[j]}

\* the orders a stable descending sort by key can leave a set in, the order before
\* the sort being that of iterating the set
SortedOrders(S, key) ==
    {p \in [1..Cardinality(S) -> S] :
        /\ \A i, j \in 1..Cardinality(S) : i # j => p[i] # p[j]
        /\ \A i, j \in 1..Cardinality(S) : i < j => key[p[i]] >= key[p[j]]}

Take(s, n) == SubSeq(s, 1, Min(n, Len(s)))

\* hybrid_score = alpha * v_score + (1 - alpha) * b_score, over HybridDen
HybridDen(vraw, braw) == 100 * NormDen(vraw) * NormDen(braw)

\* the two weights exchanged
HybridNumSwapped(vraw, braw, alpha, id) ==
    (100 - alpha) * NormNum(vraw, id) * NormDen(braw)
        + alpha * NormNum(braw, id) * NormDen(vraw)

HybridNum(vraw, braw, alpha, id) ==
    alpha * NormNum(vraw, id) * NormDen(braw)
        + (100 - alpha) * NormNum(braw, id) * NormDen(vraw)

Candidate(vraw, braw, alpha, id) ==
    [id |-> id,
     hybrid_score |-> HybridNum(vraw, braw, alpha, id),
     vector_score |-> 100 * NormNum(vraw, id) * NormDen(braw),
     bm25_score |-> 100 * NormNum(braw, id) * NormDen(vraw)]

\* c.hybrid_score >= min_score
PassesMinScore(h, den, min_score) == h * 100 >= min_score * den

\* candidates.sort(reverse=True), the min_score filter, [:limit] and the fetch of
\* the rows: cand maps each candidate id to its entry, den is their denominator
RankedLists(cand, den, min_score, limit, present) ==
    LET Keep(i) == PassesMinScore(cand[i].hybrid_score, den, min_score)
        Row(i) == i \in present
        Rows(p) == LET got == SelectSeq(Take(SelectSeq(p, Keep), limit), Row)
                   IN  [k \in 1..Len(got) |-> cand[got[k]]]
    IN  UNION {{[den |-> den, rows |-> Rows(p)] : p \in SortedOrders(DOMAIN cand, key)} :
                  key \in {[i \in DOMAIN cand |-> cand[i].hybrid_score]}}

\* hybrid_search after the two searches: vraw is what vector_search got from the
\* vector store ( <<>> when it failed), braw what bm25_search got; present holds
\* the ids that have a row.  The set of lists the call can return.
HybridResults(vraw, braw, alpha, min_score, limit, present) ==
    UNION {RankedLists(cand, HybridDen(vraw, braw), min_score, limit, present) :
              cand \in {[i \in DOMAIN vraw \cup DOMAIN braw |->
                            Candidate(vraw, braw, alpha, i)]}}

\* the BM25-only part of search_with_fallback, on the map bm25_search(query, limit)
\* got: every row of it, best first, cut to limit
FallbackLists(cand, den, limit, present) ==
    LET Row(i) == i \in present
        Rows(p) == LET got == Take(SelectSeq(p, Row), limit)
                   IN  [k \in 1..Len(got) |-> cand[got[k]]]
    IN  UNION {{[den |-> den, rows |-> Rows(p)] : p \in SortedOrders(DOMAIN cand, key)} :
                  key \in {[i \in DOMAIN cand |-> cand[i].hybrid_score]}}

FallbackResults(braw, limit, present) ==
    UNION {FallbackLists(cand, NormDen(braw), limit, present) :
              cand \in {[i \in DOMAIN braw |->
                            [id |-> i, hybrid_score |-> NormNum(braw, i),
                             vector_score |-> 0, bm25_score |-> NormNum(braw, i)]]}}

\* search_with_fallback: vraw as above, bmatch the raw score of every row the query
\* matches, raises whether hybrid_search raised.  Each outcome names its path.
SearchWithFallback(vraw, bmatch, alpha, min_score, top_k, limit, present, raises) ==
    LET hyb == IF raises THEN {}
               ELSE UNION {HybridResults(vraw, Restrict(bmatch, S), alpha, min_score,
                                         limit, present) : S \in TopKSets(bmatch, top_k)}
        hit == {r \in hyb : r.rows # <<>>}
        fall == UNION {FallbackResults(Restrict(bmatch, S), limit, present) :
                          S \in TopKSets(bmatch, limit)}
    IN  {[path |-> "hybrid", den |-> r.den, rows |-> r.rows] : r \in hit}
        \cup (IF raises \/ hit # hyb
              THEN {[path |-> "fallback", den |-> r.den, rows |-> r.rows] : r \in fall}
              ELSE {})

VARIABLES
    schema,     \* columns of the memories table: "base" (init_db) or "migrated"
    memories,   \* id -> row
    fts,        \* the full-text index memories_fts: its entries <<rowid, word>>
    vectors,    \* id -> stored vector (its length)
    nextId,     \* ids handed out so far (uuid4 never repeats)
    now,        \* the wall clock
    out,        \* what the last operation printed, returned and logged
    call,       \* a function called on its own: its name and arguments
    ret,        \* and what it returned
    migrations,         \* the files of the migrations directory: name -> statements
    schema_migrations,  \* the versions recorded in the table schema_migrations
    applied,            \* the statements of migration files in effect: <<name, k>>
    dimensions,         \* embeddings.dimensions of config.yaml
    collection,         \* the dimension of the vector collection on disk (NONE: none yet)
    runs                \* the auto saves in progress: run -> its position and its
                        \* uncommitted inserts

vecVars == <<dimensions, collection>>
migVars == <<migrations, schema_migrations, applied>>
vars == <<schema, memories, fts, vectors, nextId, now, out, call, ret, migVars, vecVars, runs>>
storeVars == <<schema, memories, fts, vectors, nextId, now, out, migVars, vecVars, runs>>

\* an empty migrations directory and a database no migration has touched
NoMigrations ==
    /\ migrations = <<>>
    /\ schema_migrations = {}
    /\ applied = {}

\* the two auto saves that can run at a time, and none of them running
Runs == {"A", "B"}

NoRuns == [p \in Runs |-> [pc |-> "idle", k |-> 0, pending |-> <<>>, extracted |-> <<>>]]

\* the default configuration and no vector collection
NoCollection ==
    /\ dimensions = DIMENSIONS
    /\ collection = NONE

NoCall == [fn |-> "none"]

(***************************************************************************)
(* The memory store.                                                       *)
(***************************************************************************)
Projects == {"P", "Q"}

MemIds == 1..MaxMem

RowIds == DOMAIN memories
VectorIds == DOMAIN vectors

\* a row as INSERT leaves it: created_at DEFAULT CURRENT_TIMESTAMP, access_count
\* DEFAULT 0, last_accessed NULL; the type is 'fact' unless the caller sets another
NewRow(content, why, project, importance, pinned, nowT) ==
    [content |-> content, why |-> why, project |-> project,
     importance |-> importance, pinned |-> pinned, created_at |-> nowT,
     last_accessed |-> NONE, access_count |-> 0, type |-> "fact"]

Insert(mem, id, row) == [i \in DOMAIN mem \cup {id} |-> IF i = id THEN row ELSE mem[i]]

\* why LIKE 'auto-%'
IsAuto(row) == row.why \in {"auto-fact", "auto-todo"}

RowAge(row, nowT) == AgeDays(nowT, row.created_at)

RowScore(row, nowT) == EffectiveScore(row.importance, row.pinned, RowAge(row, nowT))

\* UPDATE memories SET last_accessed = datetime('now'), access_count = access_count + 1
\* WHERE id IN ids
UpdateAccess(mem, ids, nowT) ==
    [i \in DOMAIN mem |->
        IF i \in ids
        THEN [mem[i] EXCEPT !.last_accessed = nowT, !.access_count = @ + 1]
        ELSE mem[i]]

\* what the index holds for a row: its words, in lower case, under its rowid
FtsEntries(id, content) == {<<id, w>> : w \in Words(LowerText(content))}

\* trigger memories_ai: INSERT INTO memories_fts(rowid, content)
FtsInsert(f, id, content) == f \cup FtsEntries(id, content)

\* the 'delete' command left out of the triggers
FtsDeleteNothing(f, id, content) == f

\* trigger memories_ad: INSERT INTO memories_fts(memories_fts, rowid, content)
\* VALUES('delete', old.id, old.content)
FtsDelete(f, id, content) == f \ FtsEntries(id, content)

\* trigger memories_au: the old entry is deleted, the new one inserted
FtsUpdate(f, id, old, new) == FtsInsert(FtsDelete(f, id, old), id, new)

\* the triggers fired by a statement that turns the table old into the table new,
\* row by row
RECURSIVE FireTriggers(_, _, _, _)
FireTriggers(f, ids, old, new) ==
    IF ids = {} THEN f
    ELSE LET i == CHOOSE x \in ids : TRUE
             g == IF i \notin DOMAIN old THEN FtsInsert(f, i, new[i].content)
                  ELSE IF i \notin DOMAIN new THEN FtsDelete(f, i, old[i].content)
                  ELSE FtsUpdate(f, i, old[i].content, new[i].content)
         IN  FireTriggers(g, ids \ {i}, old, new)

Triggers(f, old, new) ==
    FireTriggers(f, {i \in DOMAIN old \cup DOMAIN new :
                        i \notin DOMAIN old \/ i \notin DOMAIN new \/ old[i] # new[i]},
                 old, new)

\* the index of a table all of whose rows went in through the insert trigger
FtsOf(mem) == UNION {FtsEntries(i, mem[i].content) : i \in DOMAIN mem}

\* the counters of these rows can still be incremented within the bound
CanCount(ids) == \A i \in ids : memories[i].access_count < MaxAccess

(***************************************************************************)
(* The vector store (vector_store.py).  The embedding provider answers     *)
(* with a vector of DIMENSIONS numbers.                                    *)
(***************************************************************************)
\* init_collection: the collection on disk is opened as it is; only when there is
\* none is one created, with the configured dimensions
InitCollection(coll, dims) == IF coll = NONE THEN dims ELSE coll

\* insert_vector, by what happened in it: init_collection raised ("open_error":
\* nothing is touched and the exception leaves insert_vector), the delete of the
\* old vector was done and the insert raised ("insert_error": False is
\* returned), or both were done ("ok": True is returned)
InsertVector(vecs, id, vector, outcome) ==
    CASE outcome = "ok" ->
            [i \in DOMAIN vecs \cup {id} |-> IF i = id THEN vector ELSE vecs[i]]
      [] outcome = "insert_error" -> [i \in (DOMAIN vecs) \ {id} |-> vecs[i]]
      [] OTHER -> vecs

\* embed(text) raises ValueError("Empty text") for a text that strips to nothing,
\* whatever the provider does
EmbedRaises(content, outcome) ==
    Strip(content) = <<>> \/ outcome \in {"import_error", "provider_error"}

(***************************************************************************)
(* Ingestion (memory.py).                                                  *)
(***************************************************************************)
\* what a save can meet when it embeds and indexes: the imports fail (the vector
\* library is not installed), the provider fails, the collection cannot be opened,
\* the insert into the collection fails, or all goes well
EmbedOutcomes == {"import_error", "provider_error", "open_error", "insert_error", "ok"}

ExplicitInputs ==
    {<<" ">>,
     <<"alpha">>,
     <<" ", "alpha", " ", "alpha", " ">>,
     <<CRIT>>,
     <<CRIT, " ", "bravo">>}

\* the "critical:" rule of save_explicit: content[9:].strip()
ExplicitContent(stdin_data) ==
    IF StartsWithCritical(stdin_data) THEN Strip(Tail(stdin_data)) ELSE stdin_data

\* the rule left out: every save is an ordinary one
ExplicitRowPlain(stdin_data, project, nowT) ==
    NewRow(ExplicitContent(stdin_data), "explicit", project, 80, 0, nowT)

ExplicitRow(stdin_data, project, nowT) ==
    IF StartsWithCritical(stdin_data)
    THEN NewRow(ExplicitContent(stdin_data), "explicit-critical", project, 100, 1, nowT)
    ELSE NewRow(ExplicitContent(stdin_data), "explicit", project, 80, 0, nowT)

\* the acknowledgement save_explicit prints: the try block ran to its end unless
\* an exception left it, and insert_vector returning False is no exception
ExplicitAck(content, outcome) ==
    IF EmbedRaises(content, outcome) \/ outcome = "open_error"
    THEN "saved (no embedding)"
    ELSE "saved + embedded"

\* save_explicit: no content is an error; on the table init_db creates the INSERT
\* names columns that do not exist (updated_at, updated_by) and raises
SaveExplicit ==
    \E input \in ExplicitInputs :
        LET stdin_data == Strip(input)
        IN  \/ /\ stdin_data = <<>>
               /\ out' = [op |-> "save_explicit", result |-> "no content", exit |-> 1]
               /\ UNCHANGED <<schema, memories, fts, vectors, nextId, now, call, ret, migVars, vecVars, runs>>
            \/ /\ stdin_data # <<>>
               /\ schema = "base"
               /\ out' = [op |-> "save_explicit", result |-> "raised", exit |-> 1]
               /\ UNCHANGED <<schema, memories, fts, vectors, nextId, now, call, ret, migVars, vecVars, runs>>
            \/ /\ stdin_data # <<>>
               /\ schema = "migrated"
               /\ nextId <= MaxMem
               /\ \E project \in {"P"}, outcome \in EmbedOutcomes :
                     LET row == ExplicitRow(stdin_data, project, now)
                         raises == EmbedRaises(row.content, outcome)
                                       \/ outcome = "open_error"
                     IN  /\ memories' = Insert(memories, nextId, row)
                         /\ fts' = Triggers(fts, memories, memories')
                         /\ vectors' = IF raises THEN vectors
                                       ELSE InsertVector(vectors, nextId, DIMENSIONS,
                                                         outcome)
                         /\ collection' = IF raises THEN collection
                                          ELSE InitCollection(collection, dimensions)
                         /\ out' = [op |-> "save_explicit", result |-> "saved",
                                    exit |-> 0, id |-> nextId, stdin |-> stdin_data,
                                    embed_failed |-> outcome # "ok" \/ raises,
                                    ack |-> ExplicitAck(row.content, outcome),
                                    debug_logged |-> raises]
               /\ nextId' = nextId + 1
               /\ UNCHANGED <<schema, now, call, ret, migVars, dimensions, runs>>

\* a candidate of the extractor: its importance key may be missing (NONE)
AutoContents == {<<"bravo">>, <<" ", "bravo">>}
AutoImportances == {NONE, 20, 40, 50, 90}
\* the type the extractor gives a candidate: one of the five types, or another word
AutoTypes == {"fact", "todo"}

\* f"auto-{mem.get('type', 'fact')}"
AutoWhy(type) == IF type = "fact" THEN "auto-fact" ELSE "auto-todo"

Candidates ==
    {c \in [content : AutoContents, importance : AutoImportances, type : AutoTypes] :
        c.type = "todo" <=> (c.content = <<" ", "bravo">> /\ c.importance = 50)}

\* mem.get("importance", d)
ImportanceOr(cand, d) == IF cand.importance = NONE THEN d ELSE cand.importance

\* extract_memories_local: the importance cap for auto-extracted memories
CapImportance(cand) ==
    IF ImportanceOr(cand, 50) > 50 THEN [cand EXCEPT !.importance = 40] ELSE cand

\* the threshold lowered to 0.2
AutoDroppedBelow20(cand) == ImportanceOr(cand, 0) < 20

\* save_auto: if mem.get("importance", 0) < 0.4: continue
AutoDropped(cand) == ImportanceOr(cand, 0) < 40

\* is_duplicate: the rows that hold each of the first five words of four letters
\* or more, and among them one that contains the content, is contained in it, or
\* shares more than 0.7 of its words
IsDuplicate(mem, content) ==
    LET lowered == LowerText(content)
        Existing(i) == LowerText(mem[i].content)
        words == Range(Take(WordsAtLeast(lowered, 4), 5))
        rows == {i \in DOMAIN mem : words \subseteq Words(Existing(i))}
    IN  /\ words # {}
        /\ \E i \in rows :
              \/ Contains(Existing(i), lowered)
              \/ Contains(lowered, Existing(i))
              \/ Cardinality(Range(Split(lowered)) \cap Range(Split(Existing(i)))) * 10
                    > Len(Split(content)) * 7

\* the loop of save_auto over the candidates: the rows and the next id after it
RECURSIVE AutoInsert(_, _, _, _, _)
AutoInsert(mem, nid, cands, cwd, nowT) ==
    IF cands = <<>> THEN [memories |-> mem, nextId |-> nid]
    ELSE LET c == Head(cands) IN
         IF AutoDropped(c) \/ IsDuplicate(mem, c.content)
         THEN AutoInsert(mem, nid, Tail(cands), cwd, nowT)
         ELSE AutoInsert(
                  Insert(mem, nid,
                         [NewRow(c.content, AutoWhy(c.type), cwd, ImportanceOr(c, 50),
                                 0, nowT) EXCEPT !.type = c.type]),
                  nid + 1, Tail(cands), cwd, nowT)

CandidateLists == UNION {[1..n -> Candidates] : n \in 0..MaxBatch}

\* save_auto: it gives up on a cleared session, a missing or short transcript or
\* an empty extraction; otherwise every candidate is inserted or passed over and
\* the inserts are committed together
SaveAuto ==
    \/ /\ \E abort \in {"clear", "no transcript", "short", "nothing extracted"} :
             out' = [op |-> "save_auto", result |-> "skipped", saved |-> 0]
       /\ UNCHANGED <<schema, memories, fts, vectors, nextId, now, call, ret, migVars, vecVars, runs>>
    \/ \E cwd \in {"P"}, extracted \in CandidateLists \ {<<>>} :
          \E after \in {AutoInsert(memories, nextId,
                                    [k \in 1..Len(extracted) |->
                                        CapImportance(extracted[k])],
                                    cwd, now)} :
              \/ /\ after.nextId > nextId
                 /\ schema = "base"
                 /\ out' = [op |-> "save_auto", result |-> "raised", saved |-> 0]
                 /\ UNCHANGED <<schema, memories, fts, vectors, nextId, now, call, ret, migVars, vecVars, runs>>
              \/ /\ schema = "migrated" \/ after.nextId = nextId
                 /\ after.nextId <= MaxMem + 1
                 /\ memories' = after.memories
                 /\ fts' = Triggers(fts, memories, memories')
                 /\ nextId' = after.nextId
                 /\ out' = [op |-> "save_auto", result |-> "saved",
                            saved |-> after.nextId - nextId]
                 /\ UNCHANGED <<schema, vectors, now, call, ret, migVars, vecVars, runs>>

\* the lines of a markdown file, and the facts parse_dated_memory and
\* parse_topical_memory take from them: the bullet is cut off, the rest stripped,
\* and facts of ten characters or less are left out
MarkdownLines ==
    {<<"-", " ", "alpha">>,
     <<" ", "-", " ", "alpha", " ", "bravo", " ">>}

RECURSIVE LStripBullet(_)
LStripBullet(s) ==
    IF s # <<>> /\ Head(s) \in {"-", " "} THEN LStripBullet(Tail(s)) ELSE s

ParseFact(line) == Strip(LStripBullet(Strip(line)))

\* migrate_markdown on a file of one line: dated files give importance 0.6,
\* topical files 0.7
MigrateMarkdown ==
    \E line \in MarkdownLines, kind \in {"dated", "topical"} :
        LET fact == ParseFact(line)
            keep == StrLen(fact) > 10 /\ ~IsDuplicate(memories, fact)
            importance == IF kind = "dated" THEN 60 ELSE 70
        IN  \/ /\ ~keep
               /\ out' = [op |-> "migrate_markdown", result |-> "done", migrated |-> 0]
               /\ UNCHANGED <<schema, memories, fts, vectors, nextId, now, call, ret, migVars, vecVars, runs>>
            \/ /\ keep
               /\ schema = "base"
               /\ out' = [op |-> "migrate_markdown", result |-> "raised", migrated |-> 0]
               /\ UNCHANGED <<schema, memories, fts, vectors, nextId, now, call, ret, migVars, vecVars, runs>>
            \/ /\ keep
               /\ schema = "migrated"
               /\ nextId <= MaxMem
               /\ memories' = Insert(memories, nextId,
                                     NewRow(fact, "migrated", NULL, importance, 0, now))
               /\ fts' = Triggers(fts, memories, memories')
               /\ nextId' = nextId + 1
               /\ out' = [op |-> "migrate_markdown", result |-> "done", migrated |-> 1]
               /\ UNCHANGED <<schema, vectors, now, call, ret, migVars, vecVars, runs>>

(***************************************************************************)
(* Maintenance.                                                            *)
(***************************************************************************)
\* the WHERE clause without its last condition
PruneConditionAnyAccess(row, nowT) ==
    /\ IsAuto(row)
    /\ row.pinned = 0
    /\ row.importance < 30
    /\ row.created_at + PRUNE_DAYS * UnitsPerDay < nowT

\* the WHERE clause of prune_memories
PruneConditionAnyImportance(row, nowT) ==
    /\ IsAuto(row)
    /\ row.pinned = 0
    /\ row.created_at + PRUNE_DAYS * UnitsPerDay < nowT
    /\ row.access_count = 0

PruneCondition(row, nowT) ==
    /\ IsAuto(row)
    /\ row.pinned = 0
    /\ row.importance < 30
    /\ row.created_at + PRUNE_DAYS * UnitsPerDay < nowT
    /\ row.access_count = 0

\* a variant that deletes one matching row per call
PruneMemoriesOneRow ==
    LET all == {i \in RowIds : PruneCondition(memories[i], now)}
        gone == IF all = {} THEN {} ELSE {CHOOSE i \in all : TRUE}
    IN  /\ memories' = [i \in RowIds \ gone |-> memories[i]]
        /\ fts' = Triggers(fts, memories, memories')
        /\ out' = [op |-> "prune", deleted |-> gone]
        /\ UNCHANGED <<schema, vectors, nextId, now, call, ret, migVars, vecVars, runs>>

\* prune_memories: DELETE FROM memories WHERE ...; the vector store is not opened
PruneMemories ==
    LET gone == {i \in RowIds : PruneCondition(memories[i], now)}
    IN  /\ memories' = [i \in RowIds \ gone |-> memories[i]]
        /\ fts' = Triggers(fts, memories, memories')
        /\ out' = [op |-> "prune", deleted |-> gone]
        /\ UNCHANGED <<schema, vectors, nextId, now, call, ret, migVars, vecVars, runs>>

\* what reindex_all can meet at each row
ReindexOutcomes == {"provider_error", "open_error", "insert_error", "ok"}

RECURSIVE ReindexRows(_, _, _, _)
ReindexRows(vecs, ids, mem, outcome) ==
    IF ids = {} THEN vecs
    ELSE LET i == CHOOSE x \in ids : TRUE
         IN  ReindexRows(
                 IF EmbedRaises(mem[i].content, outcome[i]) THEN vecs
                 ELSE InsertVector(vecs, i, DIMENSIONS, outcome[i]),
                 ids \ {i}, mem, outcome)

\* reindex_all: every row is embedded and its vector written; a row that fails is
\* counted and passed over
ReindexAll ==
    \E outcome \in [RowIds -> ReindexOutcomes] :
        LET success == {i \in RowIds : ~EmbedRaises(memories[i].content, outcome[i])
                                       /\ outcome[i] = "ok"}
            opened == {i \in RowIds : ~EmbedRaises(memories[i].content, outcome[i])
                                      /\ outcome[i] # "open_error"}
        IN  /\ vectors' = ReindexRows(vectors, RowIds, memories, outcome)
            /\ collection' = IF opened = {} THEN collection
                             ELSE InitCollection(collection, dimensions)
            /\ out' = [op |-> "reindex", success |-> Cardinality(success),
                       failed |-> Cardinality(RowIds \ success)]
            /\ UNCHANGED <<schema, memories, fts, nextId, now, call, ret, migVars, dimensions, runs>>

\* the migrations of the repository add the columns the saves write and make id a
\* text column
MigrateSchema ==
    /\ schema = "base"
    /\ schema' = "migrated"
    /\ out' = [op |-> "migrate"]
    /\ UNCHANGED <<memories, fts, vectors, nextId, now, call, ret, migVars, vecVars, runs>>

\* time passes
TickDays == {PRUNE_DAYS + 1}

Tick ==
    \E d \in TickDays :
        /\ now + d * UnitsPerDay <= MaxNowDays * UnitsPerDay
        /\ now' = now + d * UnitsPerDay
        /\ out' = [op |-> "none"]
        /\ UNCHANGED <<schema, memories, fts, vectors, nextId, call, ret, migVars, vecVars, runs>>

(***************************************************************************)
(* Retrieval.                                                              *)
(***************************************************************************)
SeqIds(rows) == {rows[k] : k \in 1..Len(rows)}

\* project = ? OR project = 'global' OR project IS NULL
\* the project clause left out of the WHERE
ProjectVisibleAll(row, project) == TRUE

ProjectVisible(row, project) == row.project = project \/ row.project \in {"global", NULL}

\* a row that would cross the budget is passed over and the loop goes on
RECURSIVE SelectWithBudgetSkip(_, _, _, _)
SelectWithBudgetSkip(rows, mem, total, char_budget) ==
    IF rows = <<>> THEN <<>>
    ELSE IF total + StrLen(mem[Head(rows)].content) > char_budget
         THEN SelectWithBudgetSkip(Tail(rows), mem, total, char_budget)
    ELSE <<Head(rows)>> \o SelectWithBudgetSkip(Tail(rows), mem,
                                                total + StrLen(mem[Head(rows)].content),
                                                char_budget)

\* select_with_budget: the rows before the first one that would cross the budget
RECURSIVE SelectWithBudget(_, _, _, _)
SelectWithBudget(rows, mem, total, char_budget) ==
    IF rows = <<>> THEN <<>>
    ELSE IF total + StrLen(mem[Head(rows)].content) > char_budget THEN <<>>
    ELSE <<Head(rows)>> \o SelectWithBudget(Tail(rows), mem,
                                            total + StrLen(mem[Head(rows)].content),
                                            char_budget)

\* the SELECT of load_session_start: rows of the project first, then by effective
\* score, at most thirty
SessionRows(mem, project, nowT) ==
    LET S == {i \in DOMAIN mem :
                 /\ RowScore(mem[i], nowT) > 20000000 \/ mem[i].pinned = 1
                 /\ ProjectVisible(mem[i], project)}
    IN  UNION {{Take(p, SESSION_LIMIT) : p \in SortedOrders(S, key)} :
                  key \in {[i \in S |->
                              (IF mem[i].project = project THEN 200000000 ELSE 0)
                                  + RowScore(mem[i], nowT)]}}

\* load_session_start: the rows chosen under the budget are counted as accessed
\* and printed
LoadSessionStart ==
    \E project \in Projects :
        \E rows \in SessionRows(memories, project, now) :
            LET selected == SelectWithBudget(rows, memories, 0, DB_MEMORIES_BUDGET)
            IN  /\ CanCount(SeqIds(selected))
                /\ memories' = UpdateAccess(memories, SeqIds(selected), now)
                /\ fts' = Triggers(fts, memories, memories')
                /\ out' = [op |-> "load_session_start", ids |-> selected,
                           project |-> project]
                /\ UNCHANGED <<schema, vectors, nextId, now, call, ret, migVars, vecVars, runs>>

Prompts == {<<>>, <<"it">>, <<"alpha">>, <<"it", " ", "bravo", " ", "alpha">>}

\* the rows the full-text index matches for any of the words, with their score
\* (the negated rank): here the number of occurrences of the words
FtsMatch(mem, words) ==
    LET S == {i \in DOMAIN mem : words \cap Words(mem[i].content) # {}}
        Score(c) == Cardinality({k \in 1..Len(c) : c[k] \in words})
    IN  [i \in S |-> Score(mem[i].content)]

\* the rows load_prompt keeps, in the order it prints them: the fifteen best
\* matches visible from the project, those of effective score above 0.3 or pinned,
\* sorted by effective score, equal scores staying in the order of the match
PromptRows(mem, words, project, nowT) ==
    LET match == FtsMatch(mem, words)
        visible == Restrict(match, {i \in DOMAIN match : ProjectVisible(mem[i], project)})
        Kept(i) == RowScore(mem[i], nowT) > 30000000 \/ mem[i].pinned = 1
    IN  UNION {{SelectSeq(p, Kept) :
                   p \in UNION {SortedOrders(S, key) : S \in TopKSets(visible, PROMPT_LIMIT)}} :
                  key \in {[i \in DOMAIN visible |->
                              RowScore(mem[i], nowT) * 8 + visible[i]]}}

\* the header is printed whatever was selected
PromptHeaderAlways(selected) == TRUE

\* if selected: ... output = ["[relevant memories]"]
PromptHeader(selected) == selected # <<>>

\* load_prompt: nothing is printed for a prompt of fewer than three characters or
\* without a word of three letters; the rows chosen under the budget are counted
\* as accessed and printed under the header
LoadPrompt ==
    \E project \in Projects, keywords \in Prompts :
        LET words == Range(Take(WordsAtLeast(keywords, 3), 10))
        IN  \/ /\ StrLen(keywords) < 3 \/ words = {}
               /\ out' = [op |-> "load_prompt", ids |-> <<>>, header |-> FALSE,
                          keywords |-> keywords, project |-> project]
               /\ UNCHANGED <<schema, memories, fts, vectors, nextId, now, call, ret, migVars, vecVars, runs>>
            \/ /\ StrLen(keywords) >= 3
               /\ words # {}
               /\ \E rows \in PromptRows(memories, words, project, now) :
                     LET selected == SelectWithBudget(rows, memories, 0, PROMPT_BUDGET)
                     IN  /\ CanCount(SeqIds(selected))
                         /\ memories' = UpdateAccess(memories, SeqIds(selected), now)
                         /\ fts' = Triggers(fts, memories, memories')
                         /\ out' = [op |-> "load_prompt", ids |-> selected,
                                    header |-> PromptHeader(selected),
                                    keywords |-> keywords, project |-> project]
               /\ UNCHANGED <<schema, vectors, nextId, now, call, ret, migVars, vecVars, runs>>

QueryWords == {"alpha", "bravo"}

\* what a query can meet: all is well; the embedding provider fails; the vector
\* collection cannot be opened or searched; the vector library is not installed,
\* which either breaks the import of hybrid_search with an AttributeError (the
\* annotation zvec.Collection is evaluated when init_collection is defined) or,
\* where annotations are not evaluated, makes every use of it fail; the import
\* of hybrid_search fails with an ImportError; hybrid_search raises (config.yaml
\* is empty)
QueryOutcomes ==
    {"ok", "provider_error", "store_error", "no_zvec_import_raises", "no_zvec",
     "import_error", "hybrid_raises"}

\* vector_search: the scores of the stored vectors, or nothing when it failed
VectorScoreMaps(outcome) ==
    IF outcome \in {"ok", "hybrid_raises"} THEN [VectorIds -> 1..MaxRaw] ELSE {<<>>}

SourceOf(r) ==
    IF r.vector_score > 0 /\ r.bm25_score > 0 THEN "hybrid"
    ELSE IF r.vector_score > 0 THEN "vector" ELSE "keyword"

\* query_memories_fts_only: the matches, by effective score; no counter is touched
FtsOnlyResults(mem, bmatch, limit, nowT) ==
    UNION {UNION {{Take(p, limit) : p \in SortedOrders(S, key)} :
                     key \in {[i \in S |-> RowScore(mem[i], nowT)]}} :
              S \in TopKSets(bmatch, limit)}

\* the vector side gave the query nothing
VectorDown(outcome) == outcome \notin {"ok", "hybrid_raises"}

\* query_memories
QueryMemories ==
    \E search \in QueryWords, outcome \in QueryOutcomes :
        LET bmatch == FtsMatch(memories, {search})
        IN  \/ /\ outcome = "no_zvec_import_raises"
               /\ out' = [op |-> "query", vector_down |-> TRUE, raised |-> TRUE,
                          matched |-> DOMAIN bmatch]
               /\ UNCHANGED <<schema, memories, fts, vectors, nextId, now, call, ret, migVars, vecVars, runs>>
            \/ /\ outcome = "import_error"
               /\ \E ids \in FtsOnlyResults(memories, bmatch, DEFAULT_LIMIT, now) :
                     out' = [op |-> "query", vector_down |-> TRUE, raised |-> FALSE,
                             matched |-> DOMAIN bmatch, path |-> "fts_only",
                             ids |-> ids]
               /\ UNCHANGED <<schema, memories, fts, vectors, nextId, now, call, ret, migVars, vecVars, runs>>
            \/ /\ outcome \notin {"no_zvec_import_raises", "import_error"}
               /\ \E vraw \in VectorScoreMaps(outcome) :
                  \E r \in SearchWithFallback(vraw, bmatch, DEFAULT_ALPHA,
                                              DEFAULT_MIN_SCORE, DEFAULT_TOP_K,
                                              DEFAULT_LIMIT, RowIds,
                                              outcome = "hybrid_raises") :
                     LET ids == [k \in 1..Len(r.rows) |-> r.rows[k].id]
                         counted == IF r.path = "hybrid" THEN SeqIds(ids) ELSE {}
                     IN  /\ CanCount(counted)
                         /\ memories' = UpdateAccess(memories, counted, now)
                         /\ fts' = Triggers(fts, memories, memories')
                         /\ out' = [op |-> "query",
                                    vector_down |-> VectorDown(outcome),
                                    raised |-> FALSE, matched |-> DOMAIN bmatch,
                                    path |-> r.path, ids |-> ids, den |-> r.den,
                                    rows |-> r.rows]
               /\ collection' = IF outcome = "ok"
                                THEN InitCollection(collection, dimensions)
                                ELSE collection
               /\ UNCHANGED <<schema, vectors, nextId, now, call, ret, migVars, dimensions, runs>>

(***************************************************************************)
(* The store: init_db, then any of the commands in any order.              *)
(***************************************************************************)
Init ==
    /\ NoMigrations
    /\ NoCollection
    /\ runs = NoRuns
    /\ schema = "base"
    /\ memories = <<>>
    /\ vectors = <<>>
    /\ nextId = 1
    /\ now = 0
    /\ out = [op |-> "none"]
    /\ call = NoCall
    /\ ret = <<>>
    /\ fts = FtsOf(memories)

Next ==
    \/ SaveExplicit
    \/ SaveAuto
    \/ MigrateMarkdown
    \/ ReindexAll
    \/ PruneMemories
    \/ MigrateSchema
    \/ Tick
    \/ LoadSessionStart
    \/ LoadPrompt
    \/ QueryMemories

Spec == Init /\ [][Next]_vars

\* the commands that write rows or vectors or delete rows, with the clock: explicit
\* save, auto save, reindex and prune on a migrated database
\* the three ways rows come into the store, prune and the clock
NextIngest ==
    \/ SaveExplicit
    \/ SaveAuto
    \/ MigrateMarkdown
    \/ PruneMemories
    \/ MigrateSchema
    \/ Tick

SpecIngest == Init /\ [][NextIngest]_vars

NextIndex ==
    \/ SaveExplicit
    \/ SaveAuto
    \/ ReindexAll
    \/ PruneMemories
    \/ MigrateSchema
    \/ Tick

SpecIndex == Init /\ [][NextIndex]_vars

(***************************************************************************)
(* The scorer on its own: every importance, age and pinned flag.           *)
(***************************************************************************)
ScoreInputs ==
    [fn : {"effective_score"}, importance : 0..100, pinned : {0, 1},
     created : 0..UnitsPerDay, nowT : UnitsPerDay..(MaxAgeDays * UnitsPerDay)]

StoreIdle ==
    /\ NoMigrations
    /\ NoCollection
    /\ runs = NoRuns
    /\ schema = "base"
    /\ memories = <<>>
    /\ vectors = <<>>
    /\ nextId = 1
    /\ now = 0
    /\ out = [op |-> "none"]
    /\ fts = FtsOf(memories)

InitScore ==
    /\ StoreIdle
    /\ call \in ScoreInputs
    /\ ret = <<>>

EvalScore ==
    /\ call.fn = "effective_score"
    /\ ret = <<>>
    /\ ret' = <<EffectiveScore(call.importance, call.pinned,
                               AgeDays(call.nowT, call.created))>>
    /\ UNCHANGED <<storeVars, call>>

NextScore == EvalScore

SpecScore == InitScore /\ [][NextScore]_vars

(***************************************************************************)
(* search_with_fallback on its own: every pair of score maps over a few    *)
(* ids, every weight, threshold and limit of a small set.                  *)
(***************************************************************************)
ScoreMaps == UNION {[S -> 1..MaxRaw] : S \in SUBSET (1..MaxIds)}

SearchInputs ==
    [fn : {"search_with_fallback"}, vraw : ScoreMaps, bmatch : ScoreMaps,
     alpha : {0, DEFAULT_ALPHA, 100}, min_score : {0, DEFAULT_MIN_SCORE, 50},
     limit : 1..MaxIds, raises : BOOLEAN]

InitSearch ==
    /\ StoreIdle
    /\ call \in SearchInputs
    /\ ret = <<>>

EvalSearch ==
    /\ call.fn = "search_with_fallback"
    /\ ret = <<>>
    /\ \E r \in SearchWithFallback(call.vraw, call.bmatch, call.alpha, call.min_score,
                                   DEFAULT_TOP_K, call.limit, 1..MaxIds, call.raises) :
          ret' = <<r>>
    /\ UNCHANGED <<storeVars, call>>

NextSearch == EvalSearch

SpecSearch == InitSearch /\ [][NextSearch]_vars

(***************************************************************************)
(* Properties of search_with_fallback on its own (SpecSearch).             *)
(***************************************************************************)
Returned == ret # <<>>
ResultRows == ret[1].rows
ResultIds == {ResultRows[k].id : k \in 1..Len(ResultRows)}

\* C4: every entry search_with_fallback returns, on the hybrid path or on the
\* BM25-only path, has hybrid_score >= min_score, and at most limit entries are
\* returned.
C4_MinScoreAndLimit ==
    Returned =>
        /\ Len(ResultRows) <= call.limit
        /\ \A k \in 1..Len(ResultRows) :
              PassesMinScore(ResultRows[k].hybrid_score, ret[1].den, call.min_score)

\* C5: the list hybrid search returns is sorted by hybrid_score descending, and
\* entries of equal hybrid_score are in ascending order of id.
C5_SortedTieBreakById ==
    (Returned /\ ret[1].path = "hybrid") =>
        \A i, j \in 1..Len(ResultRows) :
            i < j =>
                \/ ResultRows[i].hybrid_score > ResultRows[j].hybrid_score
                \/ /\ ResultRows[i].hybrid_score = ResultRows[j].hybrid_score
                   /\ ResultRows[i].id < ResultRows[j].id

\* a list of entries is in the order of the ranking a score map gives after
\* normalization: no entry comes after one whose normalized score is strictly
\* lower (an id the map lacks counts 0.0, as does the lowest id of the map)
InRankingOrder(rows, raw) ==
    \A i, j \in 1..Len(rows) :
        i < j => NormNum(raw, rows[i].id) >= NormNum(raw, rows[j].id)

\* C6: with alpha = 1.0 the results of hybrid_search are in the order of the
\* vector-similarity ranking and each hybrid_score is the normalized vector score;
\* with alpha = 0.0 they are in the order of the BM25 ranking and each hybrid_score
\* is the normalized BM25 score.
C6_AlphaExtremes ==
    (Returned /\ ret[1].path = "hybrid") =>
        /\ call.alpha = 100 =>
              /\ InRankingOrder(ResultRows, call.vraw)
              /\ \A k \in 1..Len(ResultRows) :
                    /\ ResultRows[k].hybrid_score = ResultRows[k].vector_score
                    /\ ResultRows[k].hybrid_score * NormDen(call.vraw)
                          = ret[1].den * NormNum(call.vraw, ResultRows[k].id)
        /\ call.alpha = 0 =>
              /\ InRankingOrder(ResultRows, call.bmatch)
              /\ \A k \in 1..Len(ResultRows) :
                    /\ ResultRows[k].hybrid_score = ResultRows[k].bm25_score
                    /\ ResultRows[k].hybrid_score * NormDen(call.bmatch)
                          = ret[1].den * NormNum(call.bmatch, ResultRows[k].id)

\* alpha = 1.0, two entries returned in vector order although BM25 ranks them the
\* other way round
C6_Witness ==
    /\ Returned
    /\ ret[1].path = "hybrid"
    /\ call.alpha = 100
    /\ Len(ResultRows) >= 2
    /\ ResultRows[1].id \in DOMAIN call.vraw
    /\ ResultRows[2].id \in DOMAIN call.vraw
    /\ call.vraw[ResultRows[1].id] > call.vraw[ResultRows[2].id]
    /\ ResultRows[1].id \in DOMAIN call.bmatch
    /\ ResultRows[2].id \in DOMAIN call.bmatch
    /\ call.bmatch[ResultRows[1].id] < call.bmatch[ResultRows[2].id]

(***************************************************************************)
(* Properties of the scorer on its own (SpecScore).                        *)
(***************************************************************************)
\* whole days between the two instants of the call
CallAgeDays == (call.nowT - call.created) \div UnitsPerDay

\* C10: the effective score is in [0, 1]; it is exactly 1 for a pinned memory and
\* otherwise importance * max(0.1, 0.95^age_days), age_days being the whole number
\* of days since created_at: importance itself on the day of creation, 0.95 of it
\* one day later, and a tenth of it from the 45th day on, where 0.95^age_days has
\* fallen below 0.1.
C10_EffectiveScore ==
    ret # <<>> =>
        /\ 0 <= ret[1]
        /\ ret[1] <= 100000000
        /\ call.pinned = 1 => ret[1] = 100000000
        /\ call.pinned = 0 =>
              /\ ret[1] = call.importance * Max(100000, Pow95(CallAgeDays))
              /\ CallAgeDays = 0 => ret[1] = call.importance * 1000000
              /\ CallAgeDays = 1 => ret[1] = call.importance * 950000
              /\ CallAgeDays = 44 => ret[1] > call.importance * 100000
                                        \/ call.importance = 0
              /\ CallAgeDays >= 45 => ret[1] = call.importance * 100000

\* an unpinned memory of importance 1.0 scored on the floor of the decay
C10_Witness ==
    /\ ret # <<>>
    /\ call.pinned = 0
    /\ call.importance = 100
    /\ CallAgeDays >= 45
    /\ ret[1] = 10000000

(***************************************************************************)
(* Properties of the store.                                                *)
(***************************************************************************)
\* C1: after any sequence of explicit saves, auto saves, reindex runs and prune
\* runs, every id that has a vector also has a memory row (SpecIndex).
C1_VectorsHaveRows == VectorIds \subseteq RowIds

\* prune has just run over an auto row that has a vector, is unpinned, was never
\* read and is more than sixty days old
C1_Witness ==
    /\ out.op = "prune"
    /\ \E i \in VectorIds \cap RowIds :
          /\ IsAuto(memories[i])
          /\ memories[i].pinned = 0
          /\ memories[i].access_count = 0
          /\ memories[i].created_at + PRUNE_DAYS * UnitsPerDay < now

\* C2: in save_explicit, when the embedding or the writing of the vector fails the
\* row is still persisted, a debug entry is written and "saved (no embedding)" is
\* printed; "saved + embedded" is printed only when a vector for the new id was
\* stored.
C2_AckTellsEmbedding ==
    (out.op = "save_explicit" /\ out.result = "saved") =>
        /\ out.id \in RowIds
        /\ out.embed_failed => (out.debug_logged /\ out.ack = "saved (no embedding)")
        /\ out.ack = "saved + embedded" => out.id \in VectorIds

\* C3: when the embedding provider or the vector store is unavailable, the query
\* raises no error and returns the rows the keyword search matches, each with
\* vector_score = 0 and source "keyword" (the full-text-only listing prints no
\* vector score or source); its result is empty only when nothing matches.
C3_QueryDegradesToKeyword ==
    (out.op = "query" /\ out.vector_down) =>
        /\ ~out.raised
        /\ SeqIds(out.ids) = out.matched
        /\ out.path # "fts_only" =>
              \A k \in 1..Len(out.rows) :
                  /\ out.rows[k].vector_score = 0
                  /\ SourceOf(out.rows[k]) = "keyword"

\* the rows an operation has just printed or returned
Surfaced(o) ==
    IF o.op \in {"load_session_start", "load_prompt"} THEN SeqIds(o.ids)
    ELSE IF o.op = "query" /\ ~o.raised THEN SeqIds(o.ids)
    ELSE {}

\* C7: every retrieval operation that returns or emits a memory row (session-start
\* load, per-prompt load, query on the hybrid path, query on the BM25-only paths)
\* increments the row's access_count by one and sets its last_accessed.
C7_RetrievalCountsAccess ==
    [][\A i \in Surfaced(out') :
          /\ i \in DOMAIN memories
          /\ i \in DOMAIN memories'
          /\ memories'[i].access_count = memories[i].access_count + 1
          /\ memories'[i].last_accessed = now']_vars

\* C8: every memory row has 0 <= importance <= 1 and a content that is non-empty
\* and equal to its own trimmed form.
C8_RowsWellFormed ==
    \A i \in RowIds :
        /\ 0 <= memories[i].importance
        /\ memories[i].importance <= 100
        /\ memories[i].content # <<>>
        /\ Strip(memories[i].content) = memories[i].content

\* C9: every memory stored by the auto path has importance exactly 0.4.
C9_AutoImportanceIsCap ==
    \A i \in RowIds : IsAuto(memories[i]) => memories[i].importance = 40

(***************************************************************************)
(* normalize_tags on its own.  A tags value is None, a string or a list of *)
(* strings; the characters of a tag string are ",", " ", "a" and "A".      *)
(***************************************************************************)
NoTags == [kind |-> "none"]
TagStr(s) == [kind |-> "str", s |-> s]
TagList(l) == [kind |-> "list", l |-> l]

\* str.lower(), character by character
Lower(s) == [k \in 1..Len(s) |-> IF s[k] = "A" THEN "a" ELSE s[k]]

\* str.split(","): "" gives [""], "a," gives ["a", ""]
RECURSIVE SplitComma(_)
SplitComma(s) ==
    IF \A k \in 1..Len(s) : s[k] # ","
    THEN <<s>>
    ELSE LET i == CHOOSE k \in 1..Len(s) : s[k] = "," /\ \A j \in 1..(k - 1) : s[j] # ","
         IN  <<SubSeq(s, 1, i - 1)>> \o SplitComma(SubSeq(s, i + 1, Len(s)))

\* ",".join(parts)
RECURSIVE JoinComma(_)
JoinComma(parts) ==
    IF parts = <<>> THEN <<>>
    ELSE IF Len(parts) = 1 THEN parts[1]
    ELSE parts[1] \o <<",">> \o JoinComma(Tail(parts))

\* normalize_tags: a falsy value (None, "", []) gives None; otherwise the parts
\* between commas that do not strip to nothing, stripped, lowercased and joined
NormalizeTags(tags) ==
    IF \/ tags.kind = "none"
       \/ tags.kind = "str" /\ tags.s = <<>>
       \/ tags.kind = "list" /\ tags.l = <<>>
    THEN NoTags
    ELSE LET s == IF tags.kind = "list" THEN JoinComma(tags.l) ELSE tags.s
             Solid(t) == Strip(t) # <<>>
             parts == SelectSeq(SplitComma(s), Solid)
         IN  TagStr(JoinComma([k \in 1..Len(parts) |-> Lower(Strip(parts[k]))]))

TagChars == {",", " ", "a", "A"}
TagStrings == UNION {[1..n -> TagChars] : n \in 0..MaxTagLen}
TagLists == UNION {[1..n -> UNION {[1..m -> TagChars] : m \in 0..1}] : n \in 0..2}

TagInputs ==
    {NoTags} \cup {TagStr(s) : s \in TagStrings} \cup {TagList(l) : l \in TagLists}

InitTags ==
    /\ StoreIdle
    /\ call \in [fn : {"normalize_tags"}, tags : TagInputs]
    /\ ret = <<>>

\* normalize_tags(tags)
EvalTags ==
    /\ call.fn = "normalize_tags"
    /\ ret = <<>>
    /\ ret' = <<NormalizeTags(call.tags)>>
    /\ UNCHANGED <<storeVars, call>>

\* normalize_tags of what normalize_tags returned (a stored tags value read back
\* and normalized again)
EvalTagsAgain ==
    /\ call.fn = "normalize_tags"
    /\ Len(ret) = 1
    /\ ret' = ret \o <<NormalizeTags(ret[1])>>
    /\ UNCHANGED <<storeVars, call>>

NextTags == EvalTags \/ EvalTagsAgain

SpecTags == InitTags /\ [][NextTags]_vars

\* C11: tag normalization is idempotent, norm(norm(x)) = norm(x), for every input
\* x, also one made only of commas and white space; a list and the comma-joined
\* string of the same tags give the same result; every value the normalizer
\* returns (the value stored in a row) is a fixed point of it.
C11_TagsIdempotent ==
    /\ Len(ret) = 2 => ret[2] = ret[1]
    /\ (Len(ret) >= 1 /\ call.tags.kind = "list") =>
          ret[1] = NormalizeTags(TagStr(JoinComma(call.tags.l)))

(***************************************************************************)
(* prune_memories on its own: every table of a few rows that differ in the *)
(* five columns its WHERE clause reads, at a clock on either side of the   *)
(* sixty days.                                                             *)
(***************************************************************************)
PruneRows ==
    {[content |-> <<"alpha">>, why |-> w, project |-> "P", importance |-> imp,
      pinned |-> pin, created_at |-> c,
      last_accessed |-> IF n = 0 THEN NONE ELSE c, access_count |-> n,
      type |-> "fact"] :
        w \in {"auto-fact", "explicit"}, imp \in {29, 30}, pin \in {0, 1},
        c \in {0, 1}, n \in {0, 1}}

InitPrune ==
    /\ NoMigrations
    /\ NoCollection
    /\ runs = NoRuns
    /\ schema = "migrated"
    /\ \E n \in 0..MaxPruneRows : /\ memories \in [1..n -> PruneRows]
                                  /\ nextId = n + 1
    /\ vectors = <<>>
    /\ now \in {PRUNE_DAYS * UnitsPerDay, PRUNE_DAYS * UnitsPerDay + 1}
    /\ out = [op |-> "none"]
    /\ call = NoCall
    /\ ret = <<>>
    /\ fts = FtsOf(memories)

NextPrune == PruneMemories

SpecPrune == InitPrune /\ [][NextPrune]_vars

\* the five conditions of the claim, on a row at a clock reading
Eligible(row, nowT) ==
    /\ row.why \in {"auto-fact"}
    /\ row.pinned # 1
    /\ row.importance <= 29
    /\ nowT - row.created_at > PRUNE_DAYS * UnitsPerDay
    /\ row.access_count < 1

\* C12: prune deletes a row if and only if why begins with "auto-", the row is
\* not pinned, importance < 0.3, created_at is more than 60 days before now and
\* access_count = 0; every other row is retained, and retained rows are unchanged.
C12_PruneIffEligible ==
    [][out'.op = "prune" =>
          /\ RowIds' \subseteq RowIds
          /\ \A i \in RowIds :
                /\ i \notin RowIds' <=> Eligible(memories[i], now)
                /\ i \in RowIds' => memories'[i] = memories[i]]_vars

\* prune has deleted a row and kept one that fails a single condition (it is one
\* clock unit too young, or was read once, or has importance 0.3)
C12_Witness ==
    /\ out.op = "prune"
    /\ out.deleted # {}
    /\ \E i \in RowIds :
          /\ IsAuto(memories[i])
          /\ memories[i].pinned = 0
          /\ \/ memories[i].importance = 30
             \/ memories[i].access_count = 1
             \/ memories[i].created_at + PRUNE_DAYS * UnitsPerDay = now

\* C13: prune run twice with nothing in between deletes the eligible rows on the
\* first call and no row on the second.
C13_SecondPruneDeletesNothing ==
    [][out'.op = "prune" =>
          /\ out'.deleted = {i \in RowIds : Eligible(memories[i], now)}
          /\ out.op = "prune" => (out'.deleted = {} /\ memories' = memories)]_vars

\* the second of two prune calls has run after the first deleted every eligible
\* row, two of them
C13_Witness ==
    /\ out.op = "prune"
    /\ out.deleted = {}
    /\ Cardinality(RowIds) + 2 <= nextId - 1

(***************************************************************************)
(* The schema migrator (migrate.py).  A file name is a sequence of         *)
(* characters (the suffix ".sql" left out); a file is the sequence of its  *)
(* semicolon-delimited chunks.  A chunk is a DDL or a DML statement; run   *)
(* against the database it succeeds ("ok"), fails with "duplicate column"  *)
(* or "already exists" ("dup") or fails otherwise ("fail"); comment tells  *)
(* that the chunk begins with a "--" line.                                 *)
(***************************************************************************)
MigrationNames == {<<"9", "_", "a">>, <<"1", "0", "_", "b">>}

Chunks ==
    {[kind |-> "ddl", outcome |-> "ok", comment |-> FALSE],
     [kind |-> "dml", outcome |-> "ok", comment |-> FALSE],
     [kind |-> "ddl", outcome |-> "fail", comment |-> FALSE],
     [kind |-> "ddl", outcome |-> "dup", comment |-> FALSE],
     [kind |-> "ddl", outcome |-> "ok", comment |-> TRUE]}

MigrationBodies == UNION {[1..n -> Chunks] : n \in 1..MaxStmts}

\* ord(c)
CharCode(c) ==
    CASE c = "0" -> 48 [] c = "1" -> 49 [] c = "9" -> 57
      [] c = "_" -> 95 [] c = "a" -> 97 [] c = "b" -> 98

DigitOf(c) == CharCode(c) - 48

\* a < b for two names, as sorted() compares them: character by character
RECURSIVE NameLess(_, _)
NameLess(a, b) ==
    IF b = <<>> THEN FALSE
    ELSE IF a = <<>> THEN TRUE
    ELSE IF Head(a) # Head(b) THEN CharCode(Head(a)) < CharCode(Head(b))
    ELSE NameLess(Tail(a), Tail(b))

\* int(f.name.split("_")[0])
RECURSIVE VersionFrom(_, _)
VersionFrom(name, acc) ==
    IF name = <<>> \/ Head(name) = "_" THEN acc
    ELSE VersionFrom(Tail(name), acc * 10 + DigitOf(Head(name)))

Version(name) == VersionFrom(name, 0)

\* SELECT MIN(version) in the place of MAX
CurrentVersionMin(recorded) ==
    IF recorded = {} THEN 0 ELSE CHOOSE v \in recorded : \A w \in recorded : w >= v

\* get_current_version: SELECT MAX(version), 0 for an empty table
CurrentVersion(recorded) ==
    IF recorded = {} THEN 0 ELSE CHOOSE v \in recorded : \A w \in recorded : w <= v

\* get_pending_migrations: the files in the order sorted() gives their paths,
\* those of a version above the current one
GetPendingMigrations(files, current_version) ==
    LET S == {f \in DOMAIN files : Version(f) > current_version}
    IN  CHOOSE p \in [1..Cardinality(S) -> S] :
            \A i, j \in 1..Cardinality(S) : i < j => NameLess(p[i], p[j])

\* the loop of apply_migration from chunk k on.  x.open: a transaction is open
\* (the sqlite3 module begins one before a DML statement and never before DDL);
\* x.pending: the statements run inside it; x.applied: the statements in effect
\* and committed.  A chunk that begins with "--" is not run; an "ok" DDL
\* statement already in effect fails with "duplicate column" / "already exists"
\* and is skipped like a "dup" one.
RECURSIVE ExecFrom(_, _, _, _)
ExecFrom(name, stmts, k, x) ==
    IF k > Len(stmts) THEN [raised |-> FALSE, x |-> x]
    ELSE LET s == stmts[k] IN
         IF s.comment THEN ExecFrom(name, stmts, k + 1, x)
         ELSE IF s.outcome = "dup"
                 \/ (s.kind = "ddl" /\ s.outcome = "ok"
                     /\ <<name, k>> \in x.applied \cup x.pending)
         THEN ExecFrom(name, stmts, k + 1, x)
         ELSE IF s.outcome = "fail" THEN [raised |-> TRUE, x |-> x]
         ELSE IF s.kind = "dml"
         THEN ExecFrom(name, stmts, k + 1,
                       [x EXCEPT !.open = TRUE, !.pending = @ \cup {<<name, k>>}])
         ELSE IF x.open
         THEN ExecFrom(name, stmts, k + 1, [x EXCEPT !.pending = @ \cup {<<name, k>>}])
         ELSE ExecFrom(name, stmts, k + 1, [x EXCEPT !.applied = @ \cup {<<name, k>>}])

\* apply_migration: the statements, then the INSERT into schema_migrations and
\* the commit; on an exception conn.rollback() undoes the open transaction
ApplyMigration(files, name, recorded, inEffect) ==
    LET r == ExecFrom(name, files[name], 1,
                      [open |-> FALSE, pending |-> {}, applied |-> inEffect])
    IN  IF r.raised \/ Version(name) \in recorded
        THEN [ok |-> FALSE, recorded |-> recorded, applied |-> r.x.applied]
        ELSE [ok |-> TRUE, recorded |-> recorded \cup {Version(name)},
              applied |-> r.x.applied \cup r.x.pending]

\* the loop of migrate over the pending files: it stops at the first failure
RECURSIVE RunPending(_, _, _, _, _)
RunPending(files, pending, recorded, inEffect, done) ==
    IF pending = <<>>
    THEN [recorded |-> recorded, applied |-> inEffect, done |-> done, failed |-> <<>>]
    ELSE LET r == ApplyMigration(files, Head(pending), recorded, inEffect)
         IN  IF r.ok
             THEN RunPending(files, Tail(pending), r.recorded, r.applied,
                             Append(done, Head(pending)))
             ELSE [recorded |-> r.recorded, applied |-> r.applied, done |-> done,
                   failed |-> <<Head(pending)>>]

\* migrate: one run.  out.from is the version it started from, out.done the files
\* it applied, in order, out.failed the file it stopped at, out.inEffect and
\* out.recorded the statements in effect and the versions recorded before it
Migrate ==
    LET current == CurrentVersion(schema_migrations)
        pending == GetPendingMigrations(migrations, current)
    IN  \/ /\ pending = <<>>
           /\ out' = [op |-> "migrate", from |-> current, done |-> <<>>,
                      failed |-> <<>>, exit |-> 0, inEffect |-> applied,
                      recorded |-> schema_migrations]
           /\ UNCHANGED <<schema, memories, fts, vectors, nextId, now, call, ret, migVars, vecVars, runs>>
        \/ /\ pending # <<>>
           /\ \E r \in {RunPending(migrations, pending, schema_migrations, applied, <<>>)} :
                 /\ schema_migrations' = r.recorded
                 /\ applied' = r.applied
                 /\ out' = [op |-> "migrate", from |-> current, done |-> r.done,
                            failed |-> r.failed,
                            exit |-> IF r.failed = <<>> THEN 0 ELSE 1,
                            inEffect |-> applied,
                      recorded |-> schema_migrations]
           /\ UNCHANGED <<schema, memories, fts, vectors, nextId, now, call, ret, migrations, vecVars, runs>>

\* a migration file is added to the directory
AddMigrationFile ==
    \E name \in MigrationNames \ DOMAIN migrations, stmts \in MigrationBodies :
        /\ migrations' = [f \in DOMAIN migrations \cup {name} |->
                             IF f = name THEN stmts ELSE migrations[f]]
        /\ out' = [op |-> "add_migration"]
        /\ UNCHANGED <<schema, memories, fts, vectors, nextId, now, call, ret,
                       schema_migrations, applied, vecVars, runs>>

NextMigrate == Migrate \/ AddMigrationFile

SpecMigrate == Init /\ [][NextMigrate]_vars

(***************************************************************************)
(* Properties of the migrator (SpecMigrate).                               *)
(***************************************************************************)
\* the highest version among the files present
HighestVersion(files) ==
    CHOOSE v \in {Version(f) : f \in DOMAIN files} :
        \A f \in DOMAIN files : Version(f) <= v

\* C14: after a migrate run that succeeds, current_version equals the highest
\* version among the migration files present, and a migrate run right after it
\* succeeds, applies nothing and leaves schema_migrations (and the schema) as they
\* are.
C14_MigrateReachesHighest ==
    [][out'.op = "migrate" =>
          /\ (out'.exit = 0 /\ migrations' # <<>>) =>
                CurrentVersion(schema_migrations') = HighestVersion(migrations')
          /\ (out.op = "migrate" /\ out.exit = 0) =>
                /\ out'.exit = 0
                /\ out'.done = <<>>
                /\ schema_migrations' = schema_migrations
                /\ applied' = applied]_vars

\* migrate has run again right after a run that applied both files: it started
\* from version 10 and applied nothing
C14_Witness ==
    /\ out.op = "migrate"
    /\ out.exit = 0
    /\ out.done = <<>>
    /\ out.from = 10
    /\ schema_migrations = {9, 10}

\* C15: when a statement of a migration file fails with an error other than
\* "duplicate column" / "already exists", none of that file's statements remain
\* applied, its version is not recorded, no later file is applied, and the files
\* applied earlier in the run stay applied and recorded.
C15_FailedFileLeavesNothing ==
    (out.op = "migrate" /\ out.failed # <<>>) =>
        /\ \A st \in applied : st[1] # out.failed[1]
        /\ Version(out.failed[1]) \notin schema_migrations
        /\ schema_migrations
              = out.recorded \cup {Version(out.done[k]) : k \in 1..Len(out.done)}
        /\ \A k \in 1..Len(out.done) :
              /\ Version(out.done[k]) \in schema_migrations
              /\ \A n \in 1..Len(migrations[out.done[k]]) :
                    LET c == migrations[out.done[k]][n]
                    IN  (c.outcome = "ok" /\ ~c.comment) => <<out.done[k], n>> \in applied

\* the files above version v, in ascending order of version
NumericOrder(files, v) ==
    LET S == {f \in DOMAIN files : Version(f) > v}
    IN  CHOOSE p \in [1..Cardinality(S) -> S] :
            \A i, j \in 1..Cardinality(S) : i < j => Version(p[i]) < Version(p[j])

\* C16: migrate applies exactly the files whose numeric prefix is greater than the
\* current version, in ascending order of the numeric value of the prefix, each at
\* most once: the files it applied, and the one it stopped at, are the first of
\* that order, and all of it when the run succeeds.
C16_NumericOrder ==
    out.op = "migrate" =>
        LET order == NumericOrder(migrations, out.from)
            ran == out.done \o out.failed
        IN  /\ Len(ran) <= Len(order)
            /\ ran = SubSeq(order, 1, Len(ran))
            /\ out.exit = 0 => ran = order

(***************************************************************************)
(* More properties of the store.                                           *)
(***************************************************************************)
\* n spaces
Spaces(n) == [k \in 1..n |-> " "]

DupWords == {"alpha", "Alpha", "bravo", "it"}

\* one word, or two words with a space between them
DupContents ==
    {<<w>> : w \in DupWords} \cup {<<v, " ", w>> : v \in DupWords, w \in DupWords}

DupTables ==
    UNION {[1..n -> {NewRow(c, "auto-fact", "P", 50, 0, 0) : c \in DupContents}] :
              n \in 0..MaxDupRows}

InitDup ==
    /\ schema = "migrated"
    /\ memories \in DupTables
    /\ vectors = << >>
    /\ nextId = MaxDupRows + 1
    /\ now = 0
    /\ out = [op |-> "none"]
    /\ call \in {[fn |-> "is_duplicate", content |-> c] : c \in DupContents}
    /\ ret = <<>>
    /\ NoMigrations
    /\ NoCollection
    /\ runs = NoRuns
    /\ fts = FtsOf(memories)

\* is_duplicate(db, content)
EvalDup ==
    /\ call.fn = "is_duplicate"
    /\ ret = <<>>
    /\ ret' = <<IsDuplicate(memories, call.content)>>
    /\ UNCHANGED <<storeVars, call>>

NextDup == EvalDup

SpecDup == InitDup /\ [][NextDup]_vars

\* the relation the candidate must not have to any row: one of the two contains
\* the other, letter case aside, or they share more than 0.7 of the candidate's
\* words
Redundant(content, existing) ==
    \/ Contains(LowerText(existing), LowerText(content))
    \/ Contains(LowerText(content), LowerText(existing))
    \/ Cardinality(Range(Split(LowerText(content)))
                       \cap Range(Split(LowerText(existing)))) * 10
          > Len(Split(content)) * 7

\* C18: a candidate is a duplicate, and so is not persisted, when an existing
\* memory contains its content or is contained in it (compared without regard to
\* letter case), or when the word overlap with an existing memory exceeds 0.7 of
\* the candidate's word count.
C18_DuplicateRejected ==
    (Len(ret) = 1 /\ \E i \in DOMAIN memories :
                         Redundant(call.content, memories[i].content))
        => ret[1]

(***************************************************************************)
(* select_with_budget alone: ordered rows of several lengths and a budget. *)
(***************************************************************************)
\* contents of 0, 2 and 5 characters
BudgetContents == {<<>>, <<"it">>, <<"alpha">>}

BudgetTables ==
    UNION {[1..n -> {NewRow(c, "explicit", "P", 80, 0, 0) : c \in BudgetContents}] :
              n \in 0..MaxBudgetRows}

InitBudget ==
    /\ schema = "migrated"
    /\ memories \in BudgetTables
    /\ vectors = << >>
    /\ nextId = MaxBudgetRows + 1
    /\ now = 0
    /\ out = [op |-> "none"]
    /\ \E char_budget \in 0..MaxBudget :
          call = [fn |-> "select_with_budget",
                  rows |-> [k \in DOMAIN memories |-> k],
                  char_budget |-> char_budget]
    /\ ret = <<>>
    /\ NoMigrations
    /\ NoCollection
    /\ runs = NoRuns
    /\ fts = FtsOf(memories)

\* select_with_budget(rows, char_budget)
EvalBudget ==
    /\ call.fn = "select_with_budget"
    /\ ret = <<>>
    /\ ret' = <<SelectWithBudget(call.rows, memories, 0, call.char_budget)>>
    /\ UNCHANGED <<storeVars, call>>

NextBudget == EvalBudget

SpecBudget == InitBudget /\ [][NextBudget]_vars

\* the content lengths of the first n rows, summed
RECURSIVE PrefixLen(_, _)
PrefixLen(rows, n) ==
    IF n = 0 THEN 0 ELSE PrefixLen(rows, n - 1) + StrLen(memories[rows[n]].content)

\* C19: the budget accumulator returns the longest prefix of the ordered rows
\* whose content lengths sum to at most the budget: no row is skipped, the total
\* never exceeds the budget, and nothing is selected when the first row alone
\* exceeds it.
C19_LongestPrefixInBudget ==
    Len(ret) = 1 =>
        LET selected == ret[1]
            n == Len(selected)
        IN  /\ n <= Len(call.rows)
            /\ selected = SubSeq(call.rows, 1, n)
            /\ PrefixLen(call.rows, n) <= call.char_budget
            /\ \A m \in (n + 1)..Len(call.rows) :
                  PrefixLen(call.rows, m) > call.char_budget
            /\ (call.rows # <<>> /\ PrefixLen(call.rows, 1) > call.char_budget)
                  => selected = <<>>

\* three rows of 5, 5 and 2 characters under a budget of 8: the first row is
\* taken, the second crosses the budget, the third would still have fitted
C19_Witness ==
    /\ Len(ret) = 1
    /\ call.fn = "select_with_budget"
    /\ call.char_budget = 8
    /\ Len(call.rows) = 3
    /\ memories[1].content = <<"alpha">>
    /\ memories[2].content = <<"alpha">>
    /\ memories[3].content = <<"it">>
    /\ ret[1] = <<1>>

(***************************************************************************)
(* The MEMORY.md part of load_session_start.  A file is given by the       *)
(* number of white-space characters it starts with (lead), the number of   *)
(* characters from its first to its last character that is not white space *)
(* (body), and the number of white-space characters it ends with (trail).  *)
(* What is printed of it is a slice of the file: the offset where the      *)
(* slice starts, its length, and whether "\n[truncated]" follows it.       *)
(***************************************************************************)
NoFile == [exists |-> FALSE]

MdFiles ==
    {NoFile} \cup
    {[exists |-> TRUE, lead |-> l, body |-> b, trail |-> t] :
        l \in 0..MaxMdPad, t \in 0..MaxMdPad,
        b \in {0} \cup ((MEMORY_MD_BUDGET - MaxMdDelta)..(MEMORY_MD_BUDGET + MaxMdDelta))}

\* len(MEMORY_MD_PATH.read_text())
FileLen(f) == f.lead + f.body + f.trail

Nothing == [emitted |-> FALSE]

\* MEMORY_MD_PATH.read_text().strip(), cut at the budget when it is longer
SessionMemoryMd(f) ==
    IF ~f.exists \/ f.body = 0 THEN Nothing
    ELSE IF f.body > MEMORY_MD_BUDGET
         THEN [emitted |-> TRUE, from |-> f.lead, len |-> MEMORY_MD_BUDGET,
               truncated |-> TRUE]
         ELSE [emitted |-> TRUE, from |-> f.lead, len |-> f.body, truncated |-> FALSE]

InitMd ==
    /\ schema = "migrated"
    /\ memories = << >>
    /\ vectors = << >>
    /\ nextId = 1
    /\ now = 0
    /\ out = [op |-> "none"]
    /\ call \in {[fn |-> "load_session_start", memory_md |-> f] : f \in MdFiles}
    /\ ret = <<>>
    /\ NoMigrations
    /\ NoCollection
    /\ runs = NoRuns
    /\ fts = FtsOf(memories)

\* load_session_start, as far as MEMORY.md goes
EvalMemoryMd ==
    /\ call.fn = "load_session_start"
    /\ ret = <<>>
    /\ ret' = <<SessionMemoryMd(call.memory_md)>>
    /\ UNCHANGED <<storeVars, call>>

NextMd == EvalMemoryMd

SpecMd == InitMd /\ [][NextMd]_vars

\* C20: a MEMORY.md of exactly 10 000 characters is emitted whole with no
\* truncation marker, and one of 10 001 characters or more is emitted as its
\* first 10 000 characters followed by the marker.
C20_TruncatesAboveBudget ==
    (Len(ret) = 1 /\ call.memory_md.exists) =>
        LET f == call.memory_md IN
        /\ FileLen(f) = MEMORY_MD_BUDGET =>
              ret[1] = [emitted |-> TRUE, from |-> 0, len |-> MEMORY_MD_BUDGET,
                        truncated |-> FALSE]
        /\ FileLen(f) > MEMORY_MD_BUDGET =>
              ret[1] = [emitted |-> TRUE, from |-> 0, len |-> MEMORY_MD_BUDGET,
                        truncated |-> TRUE]

(***************************************************************************)
(* The two loaders alone, on tables of rows of several projects, scores    *)
(* and ages.                                                               *)
(***************************************************************************)
\* rows of importance 0.2 and 0.5 and pinned rows, new or LoadAgeDays old, of the
\* project "P" or of none, and one row each of another project and of 'global'
LoadRows ==
    {[NewRow(<<"it", " ", "alpha">>, "explicit", pr, q[1], q[2], q[3] * UnitsPerDay)
         EXCEPT !.why = IF q[2] = 1 THEN "explicit-critical" ELSE "explicit"] :
        pr \in {"P", NULL},
        q \in {<<20, 0, LoadAgeDays>>, <<50, 0, LoadAgeDays>>, <<50, 0, 0>>,
               <<100, 1, LoadAgeDays>>}}
    \cup {NewRow(<<"it", " ", "alpha">>, "explicit", pr, 50, 0, LoadAgeDays * UnitsPerDay) :
             pr \in {"Q", "global"}}

InitLoad ==
    /\ schema = "migrated"
    /\ memories \in UNION {[1..n -> LoadRows] : n \in 0..MaxLoadRows}
    /\ vectors = << >>
    /\ nextId = Len(memories) + 1
    /\ now = LoadAgeDays * UnitsPerDay
    /\ out = [op |-> "none"]
    /\ call = NoCall
    /\ ret = <<>>
    /\ NoMigrations
    /\ NoCollection
    /\ runs = NoRuns
    /\ fts = FtsOf(memories)

NextLoad == LoadSessionStart \/ LoadPrompt

SpecLoad == InitLoad /\ [][NextLoad]_vars

\* C21: the per-prompt loader prints nothing, and no header, when the prompt is
\* empty or has no word of three letters or more; it prints the header only when
\* at least one row is selected and listed under it.
C21_HeaderOnlyWithRows ==
    out.op = "load_prompt" =>
        /\ out.header => out.ids # <<>>
        /\ (out.keywords = <<>> \/ \A k \in 1..Len(out.keywords) : WordLen(out.keywords[k]) < 3)
              => (~out.header /\ out.ids = <<>>)

\* the prompt "it" met a row that holds the word, and nothing was printed
C21_Witness ==
    /\ out.op = "load_prompt"
    /\ out.keywords = <<"it">>
    /\ \E i \in DOMAIN memories : "it" \in Range(memories[i].content)
                                     /\ memories[i].project = out.project
    /\ ~out.header

\* C26: every row the session-start loader emits has an effective score above 0.2
\* or is pinned, and belongs to the current project, to 'global' or to no project;
\* the rows of the current project come first, and within each of the two groups
\* the rows are in descending effective score.
C26_SessionRowsFilteredAndOrdered ==
    out.op = "load_session_start" =>
        LET ids == out.ids
            Row(k) == memories[ids[k]]
            Own(k) == Row(k).project = out.project
        IN  /\ \A k \in 1..Len(ids) :
                  /\ RowScore(Row(k), now) > 20000000 \/ Row(k).pinned = 1
                  /\ Row(k).project \in {out.project, "global", NULL}
            /\ \A j, k \in 1..Len(ids) :
                  j < k => /\ Own(k) => Own(j)
                           /\ (Own(j) <=> Own(k))
                                 => RowScore(Row(j), now) >= RowScore(Row(k), now)

\* a row of the current project was emitted before a row of no project that has
\* the higher score
C26_Witness ==
    /\ out.op = "load_session_start"
    /\ Len(out.ids) = 2
    /\ memories[out.ids[1]].project = out.project
    /\ memories[out.ids[2]].project = NULL
    /\ RowScore(memories[out.ids[1]], now) < RowScore(memories[out.ids[2]], now)

(***************************************************************************)
(* The vector store alone (vector_store.py): its commands and a change of  *)
(* the configured dimensions between two runs.  The vector library keeps   *)
(* the schema a collection was created with and accepts a document only    *)
(* when its vector has the dimension of that schema.                       *)
(***************************************************************************)
DimChoices == {DIMENSIONS, 2 * DIMENSIONS}

VectorKeys == 1..MaxIds

InitVectors ==
    /\ schema = "migrated"
    /\ memories = << >>
    /\ vectors = << >>
    /\ nextId = 1
    /\ now = 0
    /\ out = [op |-> "none"]
    /\ call = NoCall
    /\ ret = <<>>
    /\ NoMigrations
    /\ NoCollection
    /\ runs = NoRuns
    /\ fts = FtsOf(memories)

\* embeddings.dimensions is edited in config.yaml
ChangeDimensions ==
    \E d \in DimChoices \ {dimensions} :
        /\ dimensions' = d
        /\ out' = [op |-> "configure"]
        /\ UNCHANGED <<schema, memories, fts, vectors, nextId, now, call, ret, migVars,
                       collection, runs>>

\* vector_store.py init
InitCommand ==
    /\ collection' = InitCollection(collection, dimensions)
    /\ out' = [op |-> "init"]
    /\ UNCHANGED <<schema, memories, fts, vectors, nextId, now, call, ret, migVars, dimensions, runs>>

\* vector_store.py insert <id> <vector>: the collection cannot be opened, or it is
\* opened and takes the vector when it has the collection's dimension
InsertCommand ==
    \E id \in VectorKeys, vector \in DimChoices, opens \in BOOLEAN :
        LET coll == InitCollection(collection, dimensions)
            outcome == IF ~opens THEN "open_error"
                       ELSE IF vector = coll THEN "ok" ELSE "insert_error"
        IN  /\ vectors' = InsertVector(vectors, id, vector, outcome)
            /\ collection' = IF opens THEN coll ELSE collection
            /\ out' = [op |-> "insert_vector", id |-> id, vector |-> vector,
                       result |-> outcome]
            /\ UNCHANGED <<schema, memories, fts, nextId, now, call, ret, migVars, dimensions, runs>>

\* vector_store.py delete <id>
DeleteCommand ==
    \E id \in VectorKeys :
        /\ vectors' = [i \in (DOMAIN vectors) \ {id} |-> vectors[i]]
        /\ collection' = InitCollection(collection, dimensions)
        /\ out' = [op |-> "delete_vector", id |-> id]
        /\ UNCHANGED <<schema, memories, fts, nextId, now, call, ret, migVars, dimensions, runs>>

NextVectors == ChangeDimensions \/ InitCommand \/ InsertCommand \/ DeleteCommand

SpecVectors == InitVectors /\ [][NextVectors]_vars

\* C22: in every reachable state every stored vector has the length of the
\* configured dimensions, also after the configured dimensions were changed
\* between two runs on an existing collection.
C22_VectorsHaveConfiguredLength ==
    \A id \in DOMAIN vectors : vectors[id] = dimensions

\* C30: when the upsert for an id that has a vector fails (insert_vector returns
\* False), the vector stored before is still there, unchanged; after a successful
\* upsert the id has the new vector.
C30_FailedUpsertKeepsVector ==
    [][(out'.op = "insert_vector" /\ out'.id \in DOMAIN vectors) =>
          /\ out'.result = "insert_error" =>
                /\ out'.id \in DOMAIN vectors'
                /\ vectors'[out'.id] = vectors[out'.id]
          /\ out'.result = "ok" =>
                /\ out'.id \in DOMAIN vectors'
                /\ vectors'[out'.id] = out'.vector]_vars

(***************************************************************************)
(* Properties of the rows of the store (Spec).                             *)
(***************************************************************************)
\* C23: on the database init creates, an explicit save with content succeeds, and
\* the row it inserts is found under its id with the content, why, project,
\* importance, type and pinned values that were written.
C23_SaveOnInitSchemaFindable ==
    (out.op = "save_explicit" /\ schema = "base" /\ out.result # "no content") =>
        /\ out.result = "saved"
        /\ out.id \in DOMAIN memories
        /\ memories[out.id] = ExplicitRow(out.stdin, memories[out.id].project,
                                          memories[out.id].created_at)

MemoryTypes == {"fact", "preference", "decision", "learning", "issue"}

\* C24: in every reachable state the type of every memory row is one of fact,
\* preference, decision, learning, issue, whatever the extractor returned to the
\* auto path.
C24_TypesInEnum ==
    \A i \in RowIds : memories[i].type \in MemoryTypes

\* C28: no row an ingestion operation creates ever satisfies the prune conditions:
\* auto rows are stored only with importance 0.4 or more and nothing lowers it,
\* so prune deletes no row.
C28_PruneDeletesNothing ==
    /\ \A i \in RowIds : IsAuto(memories[i]) => memories[i].importance >= 40
    /\ \A i \in RowIds : ~(/\ IsAuto(memories[i])
                           /\ memories[i].pinned = 0
                           /\ memories[i].importance < 30)
    /\ out.op = "prune" => out.deleted = {}

\* prune has run on an auto row that is older than the sixty days, unpinned and
\* never accessed, and the row is still there
C28_Witness ==
    /\ out.op = "prune"
    /\ \E i \in RowIds :
          /\ IsAuto(memories[i])
          /\ memories[i].pinned = 0
          /\ memories[i].access_count = 0
          /\ memories[i].created_at + PRUNE_DAYS * UnitsPerDay < now

(***************************************************************************)
(* One more property of the migrator (SpecMigrate).                        *)
(***************************************************************************)
\* C25: a version is recorded in schema_migrations only after every SQL statement
\* of its file was executed, or skipped for a "duplicate column" / "already
\* exists" error; none is left unexecuted for another reason, such as a comment
\* line before it in its chunk.
C25_RecordedFileFullyExecuted ==
    \A name \in DOMAIN migrations :
        Version(name) \in schema_migrations =>
            \A k \in 1..Len(migrations[name]) :
                \/ <<name, k>> \in applied
                \/ migrations[name][k].outcome = "dup" /\ ~migrations[name][k].comment

(***************************************************************************)
(* The full-text index under inserts, counter updates and deletions, from  *)
(* tables of old rows that were never read, on either schema.              *)
(***************************************************************************)
FtsRows ==
    {r \in PruneRows : r.created_at = 0 /\ r.importance < 30 /\ r.access_count = 0}

InitFts ==
    /\ NoMigrations
    /\ NoCollection
    /\ runs = NoRuns
    /\ schema \in {"base", "migrated"}
    /\ \E n \in 0..MaxPruneRows : /\ memories \in [1..n -> FtsRows]
                                  /\ nextId = n + 1
    /\ vectors = <<>>
    /\ now = PRUNE_DAYS * UnitsPerDay + 1
    /\ out = [op |-> "none"]
    /\ call = NoCall
    /\ ret = <<>>
    /\ fts = FtsOf(memories)

NextFts == SaveExplicit \/ LoadSessionStart \/ PruneMemories

SpecFts == InitFts /\ [][NextFts]_vars

\* C27: after any sequence of inserts, access-counter updates and deletions the
\* full-text index holds entries for exactly the ids of the memories table, each
\* with the words of the row's current content: no deleted row is still matched
\* and no present row is missing.
C27_IndexMirrorsTable ==
    /\ \A e \in fts : /\ e[1] \in RowIds
                      /\ e[2] \in Words(LowerText(memories[e[1]].content))
    /\ \A i \in RowIds : \A w \in Words(LowerText(memories[i].content)) : <<i, w>> \in fts

\* prune has deleted a row and left another, which the index still holds
C27_Witness ==
    /\ out.op = "prune"
    /\ out.deleted # {}
    /\ RowIds # {}
    /\ \E i \in RowIds : <<i, "alpha">> \in fts

(***************************************************************************)
(* Two auto saves at the same time, given the same candidates.  Each is a  *)
(* process of its own with its own connection: its SELECTs read what is    *)
(* committed and what it has inserted itself; its first INSERT begins a    *)
(* transaction and takes the write lock of the database, which it keeps    *)
(* until the commit at the end of the run.                                 *)
(***************************************************************************)
\* the run holds the write lock
Writing(p) == runs[p].pc \in {"loop", "insert"} /\ runs[p].pending # <<>>

\* the table as the connection of run p sees it
RECURSIVE WithPending(_, _)
WithPending(mem, pending) ==
    IF pending = <<>> THEN mem
    ELSE WithPending(Insert(mem, Head(pending).id, Head(pending).row), Tail(pending))

View(p) == WithPending(memories, runs[p].pending)

InitRuns ==
    /\ schema = "migrated"
    /\ memories = << >>
    /\ vectors = << >>
    /\ nextId = 1
    /\ now = 0
    /\ out = [op |-> "none"]
    /\ call = NoCall
    /\ ret = <<>>
    /\ NoMigrations
    /\ NoCollection
    /\ fts = FtsOf(memories)
    /\ \E extracted \in CandidateLists \ {<<>>} :
          runs = [p \in Runs |->
                     [pc |-> "loop", k |-> 1, pending |-> <<>>,
                      extracted |-> [k \in 1..Len(extracted) |->
                                        CapImportance(extracted[k])]]]

\* the head of the loop of save_auto for the next candidate: it is passed over
\* when its importance is low or is_duplicate finds it, otherwise it goes on to
\* the INSERT
RunCheck(p) ==
    /\ runs[p].pc = "loop"
    /\ runs[p].k <= Len(runs[p].extracted)
    /\ LET c == runs[p].extracted[runs[p].k]
       IN  runs' = IF AutoDropped(c) \/ IsDuplicate(View(p), c.content)
                   THEN [runs EXCEPT ![p].k = @ + 1]
                   ELSE [runs EXCEPT ![p].pc = "insert"]
    /\ UNCHANGED <<schema, memories, fts, vectors, nextId, now, out, call, ret, migVars, vecVars>>

\* the INSERT of the candidate, once no other run holds the write lock
RunInsert(p) ==
    /\ runs[p].pc = "insert"
    /\ \A q \in Runs \ {p} : ~Writing(q)
    /\ LET c == runs[p].extracted[runs[p].k]
           row == [NewRow(c.content, AutoWhy(c.type), "P", ImportanceOr(c, 50), 0, now)
                      EXCEPT !.type = c.type]
       IN  runs' = [runs EXCEPT ![p].pc = "loop", ![p].k = @ + 1,
                                ![p].pending = Append(@, [id |-> nextId, row |-> row])]
    /\ nextId' = nextId + 1
    /\ UNCHANGED <<schema, memories, fts, vectors, now, out, call, ret, migVars, vecVars>>

\* the other run kept the lock for longer than busy_timeout: the INSERT raises and
\* the run ends with nothing committed
RunBusy(p) ==
    /\ runs[p].pc = "insert"
    /\ \E q \in Runs \ {p} : Writing(q)
    /\ runs' = [runs EXCEPT ![p].pc = "failed", ![p].pending = <<>>]
    /\ UNCHANGED <<schema, memories, fts, vectors, nextId, now, out, call, ret, migVars, vecVars>>

\* db.commit() after the loop
RunCommit(p) ==
    /\ runs[p].pc = "loop"
    /\ runs[p].k > Len(runs[p].extracted)
    /\ memories' = View(p)
    /\ fts' = Triggers(fts, memories, memories')
    /\ out' = [op |-> "save_auto", result |-> "saved", saved |-> Len(runs[p].pending)]
    /\ runs' = [runs EXCEPT ![p].pc = "done", ![p].pending = <<>>]
    /\ UNCHANGED <<schema, vectors, nextId, now, call, ret, migVars, vecVars>>

NextRuns ==
    \E p \in Runs : RunCheck(p) \/ RunInsert(p) \/ RunBusy(p) \/ RunCommit(p)

SpecRuns == InitRuns /\ [][NextRuns]_vars

\* C29: when two auto saves run at the same time and both receive the same
\* candidate content, the duplicate check followed by the insert persists that
\* content at most once.
C29_ContentPersistedOnce ==
    \A i, j \in RowIds : i # j => memories[i].content # memories[j].content

====
